---- MODULE Spec2Model ----
(***************************************************************************)
(* Model of the repomix MCP server (src/src/index.ts): the Access Guard    *)
(* (RepomixMCPServer.isPathAllowed) and the CallToolRequestSchema handler. *)
(*                                                                         *)
(* Strings that the code inspects character by character (paths) are       *)
(* sequences of one-character strings, so that resolve, realpath, relative *)
(* and startsWith are computed the way node computes them on POSIX.        *)
(***************************************************************************)
EXTENDS Integers, Sequences, FiniteSets, TLC

VARIABLES
  fs,      \* the directories and links the guard resolves paths in
  disk,    \* the system temporary directory: temp id -> artifact, if any
  pc,      \* each request's position in the handler (its pending await)
  loc,     \* each request's local variables
  result,  \* what each request's handler returned or threw
  log,     \* history: what each request has done (guard, spawn, stat, read, rm)
  gIn,     \* SpecGuard: the candidate path
  gOut,    \* SpecGuard: what isPathAllowed settled to
  eIn,     \* SpecSize: the artifact's size in bytes and the compress flag
  eOut,    \* SpecSize: the estimate text
  cIn,     \* SpecCommand: the parsed arguments and the temp id
  cOut     \* SpecCommand: the command line as the shell splits it

guardVars == <<gIn, gOut>>
sizeVars == <<eIn, eOut>>
commandVars == <<cIn, cOut>>
handlerVars == <<disk, pc, loc, result, log>>
vars == <<fs, disk, pc, loc, result, log, gIn, gOut, eIn, eOut, cIn, cOut>>

(***************************************************************************)
(* Bounds of the model.                                                    *)
(***************************************************************************)
\* Longest candidate path, in segments, handed to the Access Guard.
MaxDepth == 3

(***************************************************************************)
(* Character strings.                                                      *)
(***************************************************************************)
RECURSIVE Join(_, _)
\* Array.prototype.join / the "/"-joined form of a list of segments.
Join(segs, sep) ==
  IF segs = <<>> THEN <<>>
  ELSE IF Len(segs) = 1 THEN segs[1]
  ELSE segs[1] \o sep \o Join(Tail(segs), sep)

RECURSIVE SplitAcc(_, _, _)
SplitAcc(str, cur, acc) ==
  IF str = <<>> THEN Append(acc, cur)
  ELSE IF Head(str) = "/" THEN SplitAcc(Tail(str), <<>>, Append(acc, cur))
  ELSE SplitAcc(Tail(str), Append(cur, Head(str)), acc)

\* The segments of a path string between its "/" separators (empty ones kept).
Split(str) == SplitAcc(str, <<>>, <<>>)

\* String.prototype.startsWith
startsWith(str, prefix) ==
  /\ Len(str) >= Len(prefix)
  /\ SubSeq(str, 1, Len(prefix)) = prefix

(***************************************************************************)
(* node:path on POSIX.                                                     *)
(***************************************************************************)
DotDot == <<".", ".">>
Dot == <<".">>

isAbsolute(p) == Len(p) > 0 /\ p[1] = "/"

RECURSIVE normalizeSegs(_, _)
\* normalizeString: drops empty and "." segments, ".." removes the segment
\* before it (and is dropped at the root).
normalizeSegs(segs, acc) ==
  IF segs = <<>> THEN acc
  ELSE LET s == Head(segs) IN
    IF s = <<>> \/ s = Dot THEN normalizeSegs(Tail(segs), acc)
    ELSE IF s = DotDot
      THEN normalizeSegs(Tail(segs),
             IF acc = <<>> THEN acc ELSE SubSeq(acc, 1, Len(acc) - 1))
      ELSE normalizeSegs(Tail(segs), Append(acc, s))

\* The absolute path string of a list of normalised segments.
AbsString(segs) == <<"/">> \o Join(segs, <<"/">>)

\* process.cwd() at launch: /h/p  (h = home, p = the project directory).
Cwd == <<"/", "h", "/", "p">>

\* path.resolve(p): p itself when absolute, else cwd joined with p; normalised.
resolve(p) ==
  IF isAbsolute(p) THEN AbsString(normalizeSegs(Split(p), <<>>))
  ELSE AbsString(normalizeSegs(Split(Cwd) \o Split(p), <<>>))

RECURSIVE CommonLen(_, _)
CommonLen(a, b) ==
  IF a = <<>> \/ b = <<>> \/ Head(a) # Head(b) THEN 0
  ELSE 1 + CommonLen(Tail(a), Tail(b))

\* path.relative(from, to) for two absolute, normalised paths: one ".." for
\* each segment of `from` past the common prefix, then the rest of `to`.
relative(from, to) ==
  LET F == normalizeSegs(Split(from), <<>>)
      T == normalizeSegs(Split(to), <<>>)
      k == CommonLen(F, T)
  IN Join([i \in 1..(Len(F) - k) |-> DotDot] \o SubSeq(T, k + 1, Len(T)), <<"/">>)

(***************************************************************************)
(* The file system the guard looks at.                                     *)
(*   /h/p        the launch directory (the Access Boundary)                *)
(*   /h/p/s, /h/p/s/s   nested directories                                 *)
(*   /h/p/..d    a directory whose name begins with two dots               *)
(*   /h/p/l      a symbolic link, target fs.inLink                         *)
(*   /h/p2       a sibling sharing a name prefix with the boundary         *)
(*   /e          a directory elsewhere;  /e/l a link, target fs.outLink    *)
(* fs.gone: the launch directory has been removed since start-up.          *)
(* fs.locked: /h/p/s cannot be searched (EACCES below it).                 *)
(***************************************************************************)
Dirs ==
  { <<>>, <<<<"h">>>>, <<<<"h">>, <<"p">>>>, <<<<"h">>, <<"p">>, <<"s">>>>,
    <<<<"h">>, <<"p">>, <<"s">>, <<"s">>>>, <<<<"h">>, <<"p">>, <<".", ".", "d">>>>,
    <<<<"h">>, <<"p", "2">>>>, <<<<"e">>>> }

BoundarySegs == <<<<"h">>, <<"p">>>>
InLinkSegs == <<<<"h">>, <<"p">>, <<"l">>>>
OutLinkSegs == <<<<"e">>, <<"l">>>>
LockedSegs == <<<<"h">>, <<"p">>, <<"s">>>>

IsPrefix(a, b) == Len(a) <= Len(b) /\ SubSeq(b, 1, Len(a)) = a

InLinkTargets ==
  { <<"/", "h", "/", "p", "/", "s">>,      \* inside
    <<"/", "h", "/", "p">>,                \* the boundary itself
    <<"/", "e">>,                          \* outward
    <<"/", "h", "/", "p", "/", "x">>,      \* dangling
    <<"/", "h", "/", "p", "/", "l">> }     \* itself: a loop

OutLinkTargets == { <<"/", "h", "/", "p", "/", "s">>, <<"/", "e">> }

FsSet ==
  [inLink : InLinkTargets, outLink : OutLinkTargets, gone : {FALSE}, locked : BOOLEAN]
  \cup [inLink : {<<"/", "e">>}, outLink : {<<"/", "e">>}, gone : {TRUE}, locked : {FALSE}]

\* What lstat finds at an absolute list of segments.
Kind(f, segs) ==
  IF f.gone /\ IsPrefix(BoundarySegs, segs) THEN "ENOENT"
  ELSE IF f.locked /\ IsPrefix(LockedSegs, segs) /\ segs # LockedSegs THEN "EACCES"
  ELSE IF segs \in Dirs THEN "dir"
  ELSE IF segs = InLinkSegs \/ segs = OutLinkSegs THEN "link"
  ELSE "ENOENT"

LinkTarget(f, segs) == IF segs = InLinkSegs THEN f.inLink ELSE f.outLink

RECURSIVE Walk(_, _, _, _)
\* realpath's walk: `done` is resolved, `rest` is still to be looked up; a link
\* restarts the walk at its (absolute) target; `fuel` bounds the links followed.
Walk(f, done, rest, fuel) ==
  IF rest = <<>> THEN [ok |-> TRUE, path |-> AbsString(done)]
  ELSE LET nxt == Append(done, Head(rest))
           k == Kind(f, nxt)
       IN IF k = "dir" THEN Walk(f, nxt, Tail(rest), fuel)
          ELSE IF k = "link"
            THEN IF fuel = 0 THEN [ok |-> FALSE, path |-> "ELOOP"]
                 ELSE Walk(f, <<>>,
                           normalizeSegs(Split(LinkTarget(f, nxt)), <<>>) \o Tail(rest),
                           fuel - 1)
            ELSE [ok |-> FALSE, path |-> k]

\* fs.promises.realpath(p): the canonical path, or a rejection.
realpath(f, p) == Walk(f, <<>>, normalizeSegs(Split(p), <<>>), 2)

(***************************************************************************)
(* The Access Guard.                                                       *)
(***************************************************************************)
allowedDirectory == Cwd

\* How an async call settles: a value, or a rejection.
Returned(v) == [threw |-> FALSE, value |-> v]
Threw == [threw |-> TRUE, value |-> FALSE]
Pending == [threw |-> FALSE, value |-> FALSE, pending |-> TRUE]

\* isPathAllowed without its try/catch: a failed realpath escapes.
isPathAllowed_nocatch(f, targetPath) ==
  LET absolutePath == realpath(f, resolve(targetPath))
      allowedPath == realpath(f, allowedDirectory)
  IN IF ~absolutePath.ok \/ ~allowedPath.ok THEN Threw
     ELSE LET relativePath == relative(allowedPath.path, absolutePath.path)
          IN Returned(~startsWith(relativePath, DotDot) /\ ~startsWith(relativePath, <<"/">>))

\* isPathAllowed comparing the path strings by prefix instead of path.relative.
isPathAllowed_prefix(f, targetPath) ==
  LET absolutePath == realpath(f, resolve(targetPath))
      allowedPath == realpath(f, allowedDirectory)
  IN IF ~absolutePath.ok \/ ~allowedPath.ok THEN Returned(FALSE)
     ELSE Returned(startsWith(absolutePath.path, allowedPath.path))

\* RepomixMCPServer.isPathAllowed
isPathAllowed(f, targetPath) ==
  LET absolutePath == realpath(f, resolve(targetPath))
      allowedPath == realpath(f, allowedDirectory)
  IN IF ~absolutePath.ok \/ ~allowedPath.ok THEN Returned(FALSE)
     ELSE LET relativePath == relative(allowedPath.path, absolutePath.path)
          IN Returned(~startsWith(relativePath, DotDot) /\ ~startsWith(relativePath, <<"/">>))

(***************************************************************************)
(* Candidate paths: every string of at most MaxDepth segments, relative    *)
(* or absolute.                                                            *)
(***************************************************************************)
SegNames ==
  { <<"h">>, <<"p">>, <<"p", "2">>, <<"e">>, <<"s">>, <<".", ".", "d">>, <<"l">>,
    Dot, DotDot }

SegSeqs == UNION { [1..n -> SegNames] : n \in 0..MaxDepth }

CandidatePaths ==
  { Join(ss, <<"/">>) : ss \in SegSeqs } \cup { <<"/">> \o Join(ss, <<"/">>) : ss \in SegSeqs }


(***************************************************************************)
(* Text.  A text is a sequence of strings read as their concatenation:     *)
(* literals are single elements, paths and arguments contribute their      *)
(* characters.                                                             *)
(***************************************************************************)
\* str.includes(sub)
Contains(str, sub) ==
  \E i \in 0..(Len(str) - Len(sub)) : SubSeq(str, i + 1, i + Len(sub)) = sub

\* An optional argument: <<>> when absent, <<v>> when supplied.
Has(o) == o # <<>>
\* JavaScript truthiness of an optional string: supplied and not empty.
Truthy(o) == Has(o) /\ o[1] # <<>>
\* JavaScript truthiness of an optional boolean.
TruthyBool(o) == Has(o) /\ o[1]

(***************************************************************************)
(* The size estimate (estimate branch of the handler).                     *)
(***************************************************************************)
BytesPerKB == 1024
CharsPerToken == 4

DigitChars == <<"0", "1", "2", "3", "4", "5", "6", "7", "8", "9">>

RECURSIVE Digits(_)
\* The decimal digits of a natural number.
Digits(n) == IF n < 10 THEN <<DigitChars[n + 1]>>
             ELSE Append(Digits(n \div 10), DigitChars[(n % 10) + 1])

RECURSIVE Grouped(_)
\* Number.prototype.toLocaleString() in the en-US locale: groups of three.
Grouped(n) ==
  IF n < 1000 THEN Digits(n)
  ELSE LET r == n % 1000
       IN Grouped(n \div 1000) \o <<",">> \o
          (IF r < 10 THEN <<"0", "0">> ELSE IF r < 100 THEN <<"0">> ELSE <<>>) \o Digits(r)

\* (bytes / unit).toFixed(2) in hundredths: the nearest hundredth, the larger
\* one on a tie (the quotient is exact in a double: unit is a power of two).
Hundredths(bytes, unit) == (200 * bytes + unit) \div (2 * unit)

\* Number.prototype.toFixed(2) of a value given in hundredths.
toFixed2(h) ==
  Digits(h \div 100) \o <<".">> \o <<DigitChars[((h % 100) \div 10) + 1], DigitChars[(h % 10) + 1]>>

sizeInKB(sizeInBytes) == toFixed2(Hundredths(sizeInBytes, BytesPerKB))
sizeInMB(sizeInBytes) == toFixed2(Hundredths(sizeInBytes, BytesPerKB * BytesPerKB))

\* Math.floor in place of Math.ceil.
estimatedTokens_floor(sizeInBytes) == sizeInBytes \div CharsPerToken

\* Math.ceil(sizeInBytes / 4)
estimatedTokens(sizeInBytes) ==
  (sizeInBytes \div CharsPerToken) + (IF sizeInBytes % CharsPerToken = 0 THEN 0 ELSE 1)

\* The text of a successful estimate.
EstimateText(sizeInBytes, compress) ==
  <<"Repomix output size estimate:\n- ", "Size: ">> \o sizeInKB(sizeInBytes) \o <<" KB (">>
    \o sizeInMB(sizeInBytes) \o <<" MB)", "\n- ", "Estimated tokens: ~">>
    \o Grouped(estimatedTokens(sizeInBytes)) \o <<"\n- ", "Compression: ">>
    \o <<IF TruthyBool(compress) THEN "enabled" ELSE "disabled">>
    \o <<"\n\nUse the repomix tool with these same parameters to retrieve the actual content.">>

(***************************************************************************)
(* Command construction.                                                   *)
(***************************************************************************)
\* join(tmpdir(), `repomix-${randomBytes(8).toString('hex')}.txt`)
tempFilePath(tempId) == <<"/tmp/repomix-", tempId, ".txt">>

commandParts(args, tempId) ==
  <<<<"npx">>, <<"repomix">>>>
    \o (IF Truthy(args.path) THEN <<args.path[1]>> ELSE <<>>)
    \o (IF Truthy(args.style) THEN <<<<"--style">>, args.style[1]>> ELSE <<>>)
    \o (IF TruthyBool(args.compress) THEN <<<<"--compress">>>> ELSE <<>>)
    \o (IF Truthy(args.include)
          THEN <<<<"--include">>, <<"\"">> \o args.include[1] \o <<"\"">>>> ELSE <<>>)
    \o (IF Truthy(args.ignore)
          THEN <<<<"--ignore">>, <<"\"">> \o args.ignore[1] \o <<"\"">>>> ELSE <<>>)
    \o (IF Truthy(args.remote) THEN <<<<"--remote">>, args.remote[1]>> ELSE <<>>)
    \o <<<<"--output">>, tempFilePath(tempId)>>

\* commandParts.join(' ')
command(args, tempId) == Join(commandParts(args, tempId), <<" ">>)

(***************************************************************************)
(* The handler's state before any call: `active` is the set of requests    *)
(* the server will receive.                                                *)
(***************************************************************************)
TempIds == {"a1", "b2"}

\* The requests a server may be handling; a specification's initial state
\* says which of them arrive (DOMAIN pc).
Requests == {1, 2}

NoArtifact == <<>>

NoResult == [kind |-> "none", text |-> <<>>, isError |-> FALSE]

NoArgs == [path |-> <<>>, style |-> <<>>, compress |-> <<>>, include |-> <<>>,
           ignore |-> <<>>, remote |-> <<>>]

InitLoc ==
  [name |-> "", args |-> NoArgs, tempId |-> "", command |-> <<>>, stderr |-> <<>>,
   error |-> <<>>, held |-> <<>>, env |-> <<>>, call |-> <<>>]

\* SpecCommand's variables outside SpecCommand.
CommandIdle == cIn = [args |-> NoArgs, tempId |-> ""] /\ cOut = <<>>

HandlerIdle(active) ==
  /\ disk = [t \in TempIds |-> NoArtifact]
  /\ pc = [r \in active |-> "idle"]
  /\ loc = [r \in active |-> InitLoc]
  /\ result = [r \in active |-> NoResult]
  /\ log = [r \in active |-> <<>>]


(***************************************************************************)
(* The CallToolRequestSchema handler.  One action per stretch of code      *)
(* between two awaits; the environment (the external tool, the file system *)
(* calls) picks each await's outcome.                                      *)
(***************************************************************************)
ToolNames == {"repomix", "repomix-estimate"}
StyleEnum == {<<"xml">>, <<"markdown">>, <<"plain">>}

Return(text, isError) == [kind |-> "return", text |-> text, isError |-> isError]
Throw(text) == [kind |-> "throw", text |-> text, isError |-> FALSE]

\* A schema whose style is any string.
Conforms_anyStyle(raw) == ~raw.wrongType

\* RepomixArgsSchema.parse succeeds.
Conforms(raw) == ~raw.wrongType /\ (Has(raw.style) => raw.style[1] \in StyleEnum)

\* The parsed arguments.
Parsed(raw) == [k \in DOMAIN NoArgs |-> raw[k]]

\* The security check applied to every local path, remote or not.
NeedsGuard_pathOnly(args) == Truthy(args.path)

\* The security check applies: a local path and no remote.
NeedsGuard(args) == Truthy(args.path) /\ ~Truthy(args.remote)

\* The mode flag never set: every call takes the retrieval branch.
isEstimate_never(r) == FALSE

isEstimate(r) == loc[r].name = "repomix-estimate"

\* The access-denied text naming the resolved path, not the supplied one.
AccessDeniedText_resolved(args) ==
  <<"Access denied: Path \"">> \o resolve(args.path[1])
    \o <<"\" is outside the allowed directory (">> \o allowedDirectory \o <<")">>

AccessDeniedText(args) ==
  <<"Access denied: Path \"">> \o args.path[1]
    \o <<"\" is outside the allowed directory (">> \o allowedDirectory \o <<")">>

\* Temp ids drawn with no regard to the ids other requests hold.
FreshIds_any(r) == TempIds

\* Temp ids no other request holds: randomBytes(8) is taken not to repeat.
FreshIds(r) == TempIds \ { loc[q].tempId : q \in DOMAIN loc \ {r} }

\* The handler touches neither the directory tree nor the other specifications'
\* variables.
Frame == UNCHANGED <<fs, gIn, gOut, eIn, eOut, cIn, cOut>>

\* History: the call as it arrived (request.params.name and .arguments).
Called(name, raw) == <<[name |-> name, arguments |-> raw]>>

\* Lines 168-205: build the command, name the temporary file, start the tool.
Spawn(r, name, args, tid, call) ==
  /\ loc' = [loc EXCEPT ![r] = [@ EXCEPT !.name = name, !.args = args, !.tempId = tid,
                                         !.command = command(args, tid), !.call = call]]
  /\ pc' = [pc EXCEPT ![r] = "exec"]
  /\ log' = [log EXCEPT ![r] = @ \o <<"name", "spawn">>]
  /\ UNCHANGED <<disk, result>>

\* Lines 145-147: a name that is neither tool.
CallUnknown(r, name, raw) ==
  /\ r \in DOMAIN pc /\ pc[r] = "idle"
  /\ Frame
  /\ name \notin ToolNames
  /\ result' = [result EXCEPT ![r] = Throw(<<"Unknown tool: ", name>>)]
  /\ pc' = [pc EXCEPT ![r] = "done"]
  /\ loc' = [loc EXCEPT ![r] = [@ EXCEPT !.name = name, !.call = Called(name, raw)]]
  /\ UNCHANGED <<disk, log>>

\* Line 149: the arguments do not parse.
CallInvalid(r, name, raw) ==
  /\ r \in DOMAIN pc /\ pc[r] = "idle"
  /\ Frame
  /\ name \in ToolNames
  /\ ~Conforms(raw)
  /\ result' = [result EXCEPT ![r] = Throw(<<"ZodError">>)]
  /\ pc' = [pc EXCEPT ![r] = "done"]
  /\ loc' = [loc EXCEPT ![r] = [@ EXCEPT !.name = name, !.call = Called(name, raw)]]
  /\ UNCHANGED <<disk, log>>

\* Lines 153-155: the security check is started.
CallGuarded(r, name, raw) ==
  /\ r \in DOMAIN pc /\ pc[r] = "idle"
  /\ Frame
  /\ name \in ToolNames
  /\ Conforms(raw)
  /\ NeedsGuard(Parsed(raw))
  /\ loc' = [loc EXCEPT ![r] = [@ EXCEPT !.name = name, !.args = Parsed(raw),
                                         !.call = Called(name, raw)]]
  /\ pc' = [pc EXCEPT ![r] = "guard"]
  /\ log' = [log EXCEPT ![r] = Append(@, "guard")]
  /\ UNCHANGED <<disk, result>>

\* Lines 153, 168-205: no security check; straight to the tool.
CallUnguarded(r, name, raw) ==
  /\ r \in DOMAIN pc /\ pc[r] = "idle"
  /\ Frame
  /\ name \in ToolNames
  /\ Conforms(raw)
  /\ ~NeedsGuard(Parsed(raw))
  /\ \E tid \in FreshIds(r) : Spawn(r, name, Parsed(raw), tid, Called(name, raw))

\* Lines 154-166: the guard has settled.
GuardDone(r) ==
  /\ r \in DOMAIN pc /\ pc[r] = "guard"
  /\ Frame
  /\ LET allowed == isPathAllowed(fs, resolve(loc[r].args.path[1]))
     IN IF allowed.threw
          THEN /\ result' = [result EXCEPT ![r] = Throw(<<"realpath rejected">>)]
               /\ pc' = [pc EXCEPT ![r] = "done"]
               /\ UNCHANGED <<disk, loc, log>>
        ELSE IF ~allowed.value
          THEN /\ result' = [result EXCEPT ![r] = Return(AccessDeniedText(loc[r].args), TRUE)]
               /\ pc' = [pc EXCEPT ![r] = "done"]
               /\ UNCHANGED <<disk, loc, log>>
        ELSE \E tid \in FreshIds(r) : Spawn(r, loc[r].name, loc[r].args, tid, loc[r].call)


(***************************************************************************)
(* The external tool and the temporary artifact.                           *)
(***************************************************************************)
\* What the tool may write as its output file (its bytes; the size is Len).
Bodies == { <<>>, <<"A", "A", "A", "A", "A">>, <<"A", "A", "A", "A", "B">> }

\* What the tool may write to standard error.
StderrSet == { <<>>, <<"glob error">> }

\* How one run of the tool ends: exit 0, a non-zero exit, or no launch at all;
\* what it wrote to standard error; and the output file it left, if any.
ExecOutcomes ==
  [exit : {"ok", "fail"}, stderr : StderrSet,
   artifact : {NoArtifact} \cup { <<b>> : b \in Bodies }]
  \cup {[exit |-> "nolaunch", stderr |-> <<>>, artifact |-> NoArtifact]}

\* error.message of a rejected execAsync (child_process.exec).
ExecErrorMessage(cmd, out) ==
  IF out.exit = "nolaunch" THEN <<"spawn /bin/sh ENOENT">>
  ELSE <<"Command failed: ">> \o cmd \o <<"\n">> \o out.stderr

\* error.message of a rejected fs call on the temporary file.
FsErrorMessage(syscall, tid, present) ==
  <<IF present THEN "EACCES: permission denied, " ELSE "ENOENT: no such file or directory, ">>
    \o <<syscall, " '">> \o tempFilePath(tid) \o <<"'">>

\* `${stderr ? `<label>${stderr}` : ''}`
StderrSuffix(label, stderr) == IF stderr # <<>> THEN <<"\n", label>> \o stderr ELSE <<>>

\* execAsync inside the estimate's inner try: a failed run of the tool in
\* estimate mode is caught by the inner catch and wrapped there.
ExecDone_wrapEstimate(r, out) ==
  /\ r \in DOMAIN pc /\ pc[r] = "exec"
  /\ Frame
  /\ disk' = IF Has(out.artifact) THEN [disk EXCEPT ![loc[r].tempId] = out.artifact] ELSE disk
  /\ IF out.exit = "ok"
       THEN /\ loc' = [loc EXCEPT ![r] = [@ EXCEPT !.stderr = out.stderr, !.env = <<out>>]]
            /\ pc' = [pc EXCEPT ![r] = IF isEstimate(r) THEN "stat" ELSE "read"]
       ELSE /\ loc' = [loc EXCEPT ![r] =
                        [@ EXCEPT !.error = ExecErrorMessage(loc[r].command, out),
                                  !.stderr = out.stderr,
                                  !.env = <<out>>]]
            /\ pc' = [pc EXCEPT ![r] = IF isEstimate(r) THEN "rmEstErr" ELSE "rmOuter"]
  /\ UNCHANGED <<result, log>>

\* Lines 205-206: execAsync settles.  Only a fulfilled promise reaches the
\* assignment to the local stderr.
ExecDone(r, out) ==
  /\ r \in DOMAIN pc /\ pc[r] = "exec"
  /\ Frame
  /\ disk' = IF Has(out.artifact) THEN [disk EXCEPT ![loc[r].tempId] = out.artifact] ELSE disk
  /\ IF out.exit = "ok"
       THEN /\ loc' = [loc EXCEPT ![r] = [@ EXCEPT !.stderr = out.stderr, !.env = <<out>>]]
            /\ pc' = [pc EXCEPT ![r] = IF isEstimate(r) THEN "stat" ELSE "read"]
       ELSE /\ loc' = [loc EXCEPT ![r] =
                        [@ EXCEPT !.error = ExecErrorMessage(loc[r].command, out),
                                  !.env = <<out>>]]
            /\ pc' = [pc EXCEPT ![r] = "rmOuter"]
  /\ UNCHANGED <<result, log>>

\* rm(tempFilePath, { force: true }).catch(ignore): nothing to do when the file
\* is absent; otherwise the file is removed, or the removal fails and is ignored.
Rm(r, fails) ==
  LET tid == loc[r].tempId
  IN IF ~Has(disk[tid]) THEN /\ disk' = disk
                             /\ log' = [log EXCEPT ![r] = Append(@, "rm_noent")]
     ELSE IF fails THEN /\ disk' = disk
                        /\ log' = [log EXCEPT ![r] = Append(@, "rm_failed")]
     ELSE /\ disk' = [disk EXCEPT ![tid] = NoArtifact]
          /\ log' = [log EXCEPT ![r] = Append(@, "rm_removed")]

\* Lines 211-215, 232: stat settles; the summary is computed, or the inner
\* catch is entered.
StatDone(r, fails) ==
  /\ r \in DOMAIN pc /\ pc[r] = "stat"
  /\ Frame
  /\ LET tid == loc[r].tempId
         present == Has(disk[tid])
     IN IF present /\ ~fails
          THEN /\ loc' = [loc EXCEPT ![r] =
                           [@ EXCEPT !.held = EstimateText(Len(disk[tid][1]), loc[r].args.compress)]]
               /\ pc' = [pc EXCEPT ![r] = "rmEst"]
          ELSE /\ loc' = [loc EXCEPT ![r] = [@ EXCEPT !.error = FsErrorMessage("stat", tid, present)]]
               /\ pc' = [pc EXCEPT ![r] = "rmEstErr"]
  /\ log' = [log EXCEPT ![r] = Append(@, "stat")]
  /\ UNCHANGED <<disk, result>>

\* Lines 218-231: the estimate's clean-up, then its result.
RmEst(r, fails) ==
  /\ r \in DOMAIN pc /\ pc[r] = "rmEst"
  /\ Frame
  /\ Rm(r, fails)
  /\ result' = [result EXCEPT ![r] = Return(loc[r].held, FALSE)]
  /\ pc' = [pc EXCEPT ![r] = "done"]
  /\ UNCHANGED loc

\* Lines 233-239, 267: clean-up in the inner catch, then the estimation
\* failure is thrown into the outer catch.
RmEstErr(r, fails) ==
  /\ r \in DOMAIN pc /\ pc[r] = "rmEstErr"
  /\ Frame
  /\ Rm(r, fails)
  /\ loc' = [loc EXCEPT ![r] =
              [@ EXCEPT !.error = <<"Failed to estimate size: ">> \o loc[r].error
                                    \o StderrSuffix("Repomix stderr: ", loc[r].stderr)]]
  /\ pc' = [pc EXCEPT ![r] = "rmOuter"]
  /\ UNCHANGED result

\* Lines 243-249: readFile settles; a failure is thrown into the outer catch.
ReadDone(r, fails) ==
  /\ r \in DOMAIN pc /\ pc[r] = "read"
  /\ Frame
  /\ LET tid == loc[r].tempId
         present == Has(disk[tid])
     IN IF present /\ ~fails
          THEN /\ loc' = [loc EXCEPT ![r] = [@ EXCEPT !.held = disk[tid][1]]]
               /\ pc' = [pc EXCEPT ![r] = "rmRead"]
          ELSE /\ loc' = [loc EXCEPT ![r] =
                           [@ EXCEPT !.error = <<"Failed to read output file: ">>
                                                 \o FsErrorMessage("open", tid, present)
                                                 \o StderrSuffix("Repomix stderr: ", loc[r].stderr)]]
               /\ pc' = [pc EXCEPT ![r] = "rmOuter"]
  /\ log' = [log EXCEPT ![r] = Append(@, "read")]
  /\ UNCHANGED <<disk, result>>

\* The retrieval's clean-up outside any try/catch of its own: a failed rm is
\* thrown into the outer catch.
RmRead_cleanupThrows(r, fails) ==
  /\ r \in DOMAIN pc /\ pc[r] = "rmRead"
  /\ Frame
  /\ Rm(r, fails)
  /\ IF Has(disk[loc[r].tempId]) /\ fails
       THEN /\ loc' = [loc EXCEPT ![r] = [@ EXCEPT !.error = <<"EPERM: operation not permitted, rm">>]]
            /\ pc' = [pc EXCEPT ![r] = "rmOuter"]
            /\ UNCHANGED result
       ELSE /\ result' = [result EXCEPT ![r] = Return(loc[r].held, FALSE)]
            /\ pc' = [pc EXCEPT ![r] = "done"]
            /\ UNCHANGED loc

\* Lines 251-265: the retrieval's clean-up, then the file's contents.
RmRead(r, fails) ==
  /\ r \in DOMAIN pc /\ pc[r] = "rmRead"
  /\ Frame
  /\ Rm(r, fails)
  /\ result' = [result EXCEPT ![r] = Return(loc[r].held, FALSE)]
  /\ pc' = [pc EXCEPT ![r] = "done"]
  /\ UNCHANGED loc

\* The text of the outer catch's result (line 279).
OuterErrorText(error, stderr) ==
  <<"Error executing repomix: ">> \o error \o StderrSuffix("Stderr: ", stderr)

\* The outer catch without its clean-up.
RmOuter_noCleanup(r, fails) ==
  /\ r \in DOMAIN pc /\ pc[r] = "rmOuter"
  /\ Frame
  /\ result' = [result EXCEPT ![r] = Return(OuterErrorText(loc[r].error, loc[r].stderr), TRUE)]
  /\ pc' = [pc EXCEPT ![r] = "done"]
  /\ UNCHANGED <<loc, disk, log>>

\* Lines 267-284: the outer catch: clean-up, then the error result.
RmOuter(r, fails) ==
  /\ r \in DOMAIN pc /\ pc[r] = "rmOuter"
  /\ Frame
  /\ Rm(r, fails)
  /\ result' = [result EXCEPT ![r] = Return(OuterErrorText(loc[r].error, loc[r].stderr), TRUE)]
  /\ pc' = [pc EXCEPT ![r] = "done"]
  /\ UNCHANGED loc

(***************************************************************************)
(* Spec: one request, any tool name, any arguments, any environment.       *)
(***************************************************************************)
PathOpts == { <<>>, <<<<>>>>, <<<<"s">>>>, <<<<"/", "e">>>>, <<<<"l">>>> }
RemoteOpts == { <<>>, <<<<>>>>, <<<<"https://host/repo">>>> }

RawArgsSet ==
  [path : PathOpts, style : {<<>>}, compress : {<<>>, <<TRUE>>}, include : {<<>>},
   ignore : {<<>>}, remote : RemoteOpts, wrongType : {FALSE}]
  \cup [path : {<<<<"s">>>>}, style : {<<<<"xml">>>>, <<<<"html">>>>}, compress : {<<FALSE>>},
        include : {<<<<"*.ts,*.md">>>>}, ignore : {<<<<"dist/**">>>>}, remote : {<<>>},
        wrongType : BOOLEAN]

CallNames == ToolNames \cup {"other"}

\* The file systems of Spec: the link inside points inside or outward, or
\* the launch directory is gone.
MainFsSet ==
  { f \in FsSet : ~f.locked /\ f.outLink = <<"/", "e">>
                   /\ f.inLink \in {<<"/", "h", "/", "p", "/", "s">>, <<"/", "e">>} }

Init ==
  /\ fs \in MainFsSet
  /\ HandlerIdle({1})
  /\ gIn = <<>> /\ gOut = Pending
  /\ eIn = [size |-> 0, compress |-> <<>>] /\ eOut = <<>>
  /\ CommandIdle

Handler(r) ==
  \/ \E name \in CallNames, raw \in RawArgsSet :
       \/ CallUnknown(r, name, raw)
       \/ CallInvalid(r, name, raw)
       \/ CallGuarded(r, name, raw)
       \/ CallUnguarded(r, name, raw)
  \/ GuardDone(r)
  \/ \E out \in ExecOutcomes : ExecDone(r, out)
  \/ \E fails \in BOOLEAN :
       \/ StatDone(r, fails)
       \/ RmEst(r, fails)
       \/ RmEstErr(r, fails)
       \/ ReadDone(r, fails)
       \/ RmRead(r, fails)
       \/ RmOuter(r, fails)

Next == \E r \in Requests : Handler(r)

Spec == Init /\ [][Next]_vars

(***************************************************************************)
(* SpecGuard: the guard applied to one candidate path in one file system.  *)
(***************************************************************************)
InitGuard ==
  /\ fs \in FsSet
  /\ gIn \in CandidatePaths
  /\ gOut = Pending
  /\ HandlerIdle({})
  /\ eIn = [size |-> 0, compress |-> <<>>] /\ eOut = <<>>
  /\ CommandIdle

CheckPath ==
  /\ gOut = Pending
  /\ gOut' = isPathAllowed(fs, gIn)
  /\ UNCHANGED <<fs, gIn, handlerVars, sizeVars, commandVars>>

NextGuard == CheckPath

SpecGuard == InitGuard /\ [][NextGuard]_vars

(***************************************************************************)
(* SpecSize: the estimate's text for one artifact size.                    *)
(***************************************************************************)
\* Largest artifact size, in bytes, the estimate is computed for.
MaxBytes == 5400

InitSize ==
  /\ eIn \in [size : 0..MaxBytes, compress : {<<>>, <<TRUE>>, <<FALSE>>}]
  /\ eOut = <<>>
  /\ fs \in {f \in MainFsSet : ~f.gone /\ f.inLink = <<"/", "e">>}
  /\ HandlerIdle({})
  /\ gIn = <<>> /\ gOut = Pending
  /\ CommandIdle

Estimate ==
  /\ eOut = <<>>
  /\ eOut' = EstimateText(eIn.size, eIn.compress)
  /\ UNCHANGED <<fs, eIn, handlerVars, guardVars, commandVars>>

NextSize == Estimate

SpecSize == InitSize /\ [][NextSize]_vars

(***************************************************************************)
(* SpecPair: two requests in one server, interleaved at their awaits.      *)
(***************************************************************************)
PairArgsSet ==
  [path : {<<>>}, style : {<<>>}, compress : {<<>>, <<TRUE>>}, include : {<<>>},
   ignore : {<<>>}, remote : {<<>>}, wrongType : {FALSE}]

InitPair ==
  /\ fs \in {f \in MainFsSet : ~f.gone /\ f.inLink = <<"/", "e">>}
  /\ HandlerIdle({1, 2})
  /\ gIn = <<>> /\ gOut = Pending
  /\ eIn = [size |-> 0, compress |-> <<>>] /\ eOut = <<>>
  /\ CommandIdle

HandlerPair(r) ==
  \/ \E name \in ToolNames, raw \in PairArgsSet : CallUnguarded(r, name, raw)
  \/ \E out \in ExecOutcomes : ExecDone(r, out)
  \/ \E fails \in BOOLEAN :
       \/ StatDone(r, fails)
       \/ RmEst(r, fails)
       \/ RmEstErr(r, fails)
       \/ ReadDone(r, fails)
       \/ RmRead(r, fails)
       \/ RmOuter(r, fails)

NextPair == \E r \in Requests : HandlerPair(r)

SpecPair == InitPair /\ [][NextPair]_vars

(***************************************************************************)
(* SpecCommand: the command line of one call, and the words /bin/sh makes  *)
(* of it (child_process.exec runs its string through the shell).           *)
(***************************************************************************)
\* Characters a backslash escapes inside double quotes in the POSIX shell
\* (the backquote, which no command line here holds, is left out).
DqEscapable == {"\"", "\\", "$"}

\* Word splitting and quote removal of the POSIX shell over command lines
\* made of ordinary characters, spaces, double quotes and backslashes: an
\* unquoted space ends a word, a double quote opens or closes a quoted
\* stretch of the current word, a backslash escapes the next character
\* (inside double quotes only one of DqEscapable).  A command line that ends
\* inside a quoted stretch is a syntax error and no program is run.
RECURSIVE ShellAcc(_, _, _, _, _)
ShellAcc(str, cur, started, quoted, acc) ==
  IF str = <<>>
    THEN IF quoted THEN [ok |-> FALSE, words |-> <<>>]
         ELSE [ok |-> TRUE, words |-> IF started THEN Append(acc, cur) ELSE acc]
  ELSE LET h == Head(str)
           t == Tail(str)
       IN IF quoted
            THEN IF h = "\"" THEN ShellAcc(t, cur, TRUE, FALSE, acc)
                 ELSE IF h = "\\" /\ t # <<>> /\ Head(t) \in DqEscapable
                   THEN ShellAcc(Tail(t), Append(cur, Head(t)), TRUE, TRUE, acc)
                 ELSE ShellAcc(t, Append(cur, h), TRUE, TRUE, acc)
            ELSE IF h = " "
                   THEN ShellAcc(t, <<>>, FALSE, FALSE, IF started THEN Append(acc, cur) ELSE acc)
                 ELSE IF h = "\"" THEN ShellAcc(t, cur, TRUE, TRUE, acc)
                 ELSE IF h = "\\" /\ t # <<>>
                   THEN ShellAcc(Tail(t), Append(cur, Head(t)), TRUE, FALSE, acc)
                 ELSE ShellAcc(t, Append(cur, h), TRUE, FALSE, acc)

\* The argument words the shell hands to the program, or a syntax error.
ShellSplit(cmd) == ShellAcc(cmd, <<>>, FALSE, FALSE, <<>>)

\* include / ignore values: a comma-separated glob list, a value with a
\* space, values with double quotes (balanced, unbalanced, carrying an
\* option of their own) and a value ending in a backslash.
PatternValues ==
  { <<"*", ".", "c", ",", "*", ".", "h">>,
    <<"a", " ", "b">>,
    <<"a", "\"", " ", "\"", "b">>,
    <<"a", "\"", "b">>,
    <<"x", "\"", " ", "--output", " ", "/tmp/evil", " ", "\"">>,
    <<"a", "\\">> }

PatternOpts == {<<>>, <<<<>>>>} \cup { <<v>> : v \in PatternValues }

CommandArgsSet ==
  [path : {<<>>, <<<<"s">>>>}, style : {<<>>, <<<<"xml">>>>}, compress : {<<>>, <<TRUE>>},
   include : PatternOpts, ignore : PatternOpts,
   remote : {<<>>, <<<<"https://host/repo">>>>}]

InitCommand ==
  /\ cIn \in [args : CommandArgsSet, tempId : TempIds]
  /\ cOut = <<>>
  /\ fs \in {f \in MainFsSet : ~f.gone /\ f.inLink = <<"/", "e">>}
  /\ HandlerIdle({})
  /\ gIn = <<>> /\ gOut = Pending
  /\ eIn = [size |-> 0, compress |-> <<>>] /\ eOut = <<>>

\* Lines 168-205: the command line is built and handed to the shell.
BuildCommand ==
  /\ cOut = <<>>
  /\ cOut' = <<[command |-> command(cIn.args, cIn.tempId),
                shell |-> ShellSplit(command(cIn.args, cIn.tempId))]>>
  /\ UNCHANGED <<fs, cIn, handlerVars, guardVars, sizeVars>>

NextCommand == BuildCommand

SpecCommand == InitCommand /\ [][NextCommand]_vars

(***************************************************************************)
(* Claims about the Access Guard (checked under SpecGuard).                *)
(***************************************************************************)
\* The canonical path of the candidate, as the operating system resolves it.
RealOf(f, p) == realpath(f, resolve(p))

\* The candidate exists and its real path is the boundary or below it.
Inside(f, p) ==
  /\ RealOf(f, p).ok
  /\ IsPrefix(BoundarySegs, normalizeSegs(Split(RealOf(f, p).path), <<>>))

\* The candidate exists and its real path is neither the boundary nor below it.
Outside(f, p) == RealOf(f, p).ok /\ ~Inside(f, p)

\* Resolution of the candidate or of the boundary fails.
Unresolvable(f, p) == ~RealOf(f, p).ok \/ ~realpath(f, allowedDirectory).ok

\* C3: every existing path whose real path is the boundary or a descendant of
\* it, whatever its segments are called, is allowed.
C3_InsideAllowed ==
  (gOut # Pending /\ Inside(fs, gIn)) => gOut = Returned(TRUE)

\* C4: every path whose real path is neither the boundary nor a descendant of
\* it (traversal, absolute paths elsewhere, prefix-sharing siblings, links
\* pointing outward) is refused.
C4_OutsideDenied ==
  (gOut # Pending /\ Outside(fs, gIn)) => gOut = Returned(FALSE)

\* C4 witness: a link inside the boundary that points outward has been refused.
C4_Witness ==
  /\ gOut = Returned(FALSE)
  /\ Outside(fs, gIn)
  /\ IsPrefix(BoundarySegs, normalizeSegs(Split(resolve(gIn)), <<>>))

\* C5: when the candidate or the boundary cannot be resolved the guard returns
\* false; it never throws.
C5_FailClosed ==
  (gOut # Pending /\ Unresolvable(fs, gIn)) => gOut = Returned(FALSE)

\* C5 witness: the candidate resolves, the boundary does not, and the guard
\* has returned false.
C5_Witness ==
  /\ gOut = Returned(FALSE)
  /\ RealOf(fs, gIn).ok
  /\ ~realpath(fs, allowedDirectory).ok

(***************************************************************************)
(* Claims about the handler (checked under Spec unless said otherwise).    *)
(***************************************************************************)
Occurs(r, event) == \E i \in 1..Len(log[r]) : log[r][i] = event

RmEvents == {"rm_noent", "rm_failed", "rm_removed"}

\* The request's handler has returned or thrown.
Completed(r) == pc[r] = "done"

\* The guard, asked about the request's path, says no.
GuardDenies(r) ==
  /\ Truthy(loc[r].args.path)
  /\ isPathAllowed(fs, resolve(loc[r].args.path[1])) = Returned(FALSE)

\* C1: a call with a path, no remote, and a path the guard denies returns
\* the error-flagged access-denied text naming the path as supplied and the
\* boundary, and that request starts no subprocess and names, stats, reads and
\* deletes no temporary file.
C1_DenialShortCircuits ==
  \A r \in DOMAIN pc :
    (pc[r] \notin {"idle", "guard"} /\ ~Has(loc[r].args.remote) /\ GuardDenies(r))
      => /\ Completed(r)
         /\ result[r] =
              [kind |-> "return", isError |-> TRUE,
               text |-> <<"Access denied: Path \"">> \o loc[r].args.path[1]
                          \o <<"\" is outside the allowed directory (">> \o Cwd \o <<")">>]
         /\ log[r] = <<"guard">>
         /\ loc[r].tempId = "" /\ loc[r].command = <<>>
         /\ \A t \in TempIds : disk[t] = NoArtifact

\* C1 witness: a relative path through an outward link has been denied.
C1_Witness ==
  \E r \in DOMAIN pc :
    /\ Completed(r) /\ ~Has(loc[r].args.remote) /\ GuardDenies(r)
    /\ loc[r].args.path = <<<<"l">>>>
    /\ result[r].isError

\* C2: the tool is never started with a local path argument that resolves
\* outside the launch directory, remote or no remote.
C2_NoOutsidePathSpawned ==
  \A r \in DOMAIN pc :
    ~(Occurs(r, "spawn") /\ Truthy(loc[r].args.path) /\ Outside(fs, loc[r].args.path[1]))

\* C6 as claimed: whenever remote and path are both supplied, the guard is not
\* invoked and the result is not an access-denied one.
C6_RemoteSuppliedSkipsGuard ==
  \A r \in DOMAIN pc :
    (pc[r] # "idle" /\ Has(loc[r].args.remote) /\ Has(loc[r].args.path))
      => /\ ~Occurs(r, "guard")
         /\ ~startsWith(result[r].text, <<"Access denied: Path \"">>)

\* C6 as amended: whenever remote is a non-empty string and path is supplied,
\* the guard is not invoked and the result is not an access-denied one.
C6_RemoteSkipsGuard ==
  \A r \in DOMAIN pc :
    (pc[r] # "idle" /\ Truthy(loc[r].args.remote) /\ Has(loc[r].args.path))
      => /\ ~Occurs(r, "guard")
         /\ ~startsWith(result[r].text, <<"Access denied: Path \"">>)

\* C6 witness: a request with a remote and a path outside the boundary has
\* completed.
C6_Witness ==
  \E r \in DOMAIN pc :
    /\ Completed(r) /\ Truthy(loc[r].args.remote)
    /\ Truthy(loc[r].args.path) /\ Outside(fs, loc[r].args.path[1])
    /\ result[r].kind = "return"

\* The deletions the request has attempted, in order.
RmLog(r) == SelectSeq(log[r], LAMBDA e : e \in RmEvents)

\* C7 as claimed: when a request returns its result, its temporary file does
\* not exist.
C7_ArtifactGoneAtReturn ==
  \A r \in DOMAIN pc :
    (Completed(r) /\ loc[r].tempId # "") => disk[loc[r].tempId] = NoArtifact

\* C7 as amended: a request that named a temporary file has attempted its
\* deletion at least once when it returns, the file is absent then unless the
\* last attempt failed, and an attempt after a successful one finds nothing
\* and changes nothing.
C7_CleanupAttempted ==
  \A r \in DOMAIN pc :
    (Completed(r) /\ loc[r].tempId # "")
      => LET rms == RmLog(r)
         IN /\ Len(rms) >= 1
            /\ Has(disk[loc[r].tempId]) => rms[Len(rms)] = "rm_failed"
            /\ \A i \in 1..Len(rms) :
                 rms[i] = "rm_removed" => \A j \in (i + 1)..Len(rms) : rms[j] = "rm_noent"

\* C7 witness: a request has deleted its file and attempted deletion again.
C7_Witness ==
  \E r \in DOMAIN pc :
    /\ Completed(r)
    /\ RmLog(r) = <<"rm_removed", "rm_noent">>
    /\ disk[loc[r].tempId] = NoArtifact

\* C10: when the tool has exited non-zero (or could not be launched) having
\* written S to standard error, the retrieval's result is error-flagged,
\* starts with "Error executing repomix: " and contains "Stderr: S".
C10_StderrInExecError ==
  \A r \in DOMAIN pc :
    (Completed(r) /\ loc[r].name = "repomix" /\ Has(loc[r].env)
       /\ loc[r].env[1].exit # "ok" /\ loc[r].env[1].stderr # <<>>)
      => /\ result[r].kind = "return" /\ result[r].isError
         /\ startsWith(result[r].text, <<"Error executing repomix: ">>)
         /\ Contains(result[r].text, <<"Stderr: ">> \o loc[r].env[1].stderr)

(***************************************************************************)
(* Claims about the estimate.                                              *)
(***************************************************************************)
\* The request is a call of the estimate operation whose tool run left an
\* output file.
EstimateRun(r) ==
  /\ Completed(r) /\ loc[r].name = "repomix-estimate"
  /\ Has(loc[r].env) /\ Has(loc[r].env[1].artifact)

\* What the tool wrote as the request's output file.
Written(r) == loc[r].env[1].artifact[1]

Succeeded(r) == result[r].kind = "return" /\ ~result[r].isError

\* C8 as claimed (SpecPair): two estimate runs with the same arguments whose
\* artifacts have the same size but different content return the same result.
C8_SameSizeSameResult ==
  \A r1, r2 \in DOMAIN pc :
    (EstimateRun(r1) /\ EstimateRun(r2) /\ loc[r1].args = loc[r2].args
       /\ Len(Written(r1)) = Len(Written(r2)) /\ Written(r1) # Written(r2))
      => result[r1] = result[r2]

\* C8 as amended (SpecPair): two successful estimate runs with the same
\* arguments whose artifacts have the same size return the same result,
\* whatever the artifacts contain; and no estimate result, successful or
\* not, contains the artifact's content.
C8_EstimateHidesContent ==
  /\ \A r1, r2 \in DOMAIN pc :
       (EstimateRun(r1) /\ EstimateRun(r2) /\ loc[r1].args = loc[r2].args
          /\ Succeeded(r1) /\ Succeeded(r2)
          /\ Len(Written(r1)) = Len(Written(r2)))
         => result[r1] = result[r2]
  /\ \A r \in DOMAIN pc :
       (EstimateRun(r) /\ Written(r) # <<>>) => ~Contains(result[r].text, Written(r))

\* C8 witness: two successful estimates of different artifacts of one size.
C8_Witness ==
  \E r1, r2 \in DOMAIN pc :
    /\ EstimateRun(r1) /\ EstimateRun(r2) /\ loc[r1].args = loc[r2].args
    /\ Succeeded(r1) /\ Succeeded(r2)
    /\ Len(Written(r1)) = Len(Written(r2)) /\ Written(r1) # Written(r2)
    /\ result[r1] = result[r2]

Abs(x) == IF x < 0 THEN -x ELSE x

\* C9 (SpecSize): the estimate of an N-byte artifact reports t tokens with
\* t the least integer not below N/4, and the size as k hundredths of a KB
\* and m hundredths of an MB, each the nearest hundredth to N/1024 and
\* N/1048576; 5396 bytes give 5.27 KB, 0.01 MB and 1,349 tokens, 0 bytes 0
\* tokens, 1..4 bytes 1 token.
C9_TokenAndSizeFormula ==
  eOut # <<>> =>
    LET N == eIn.size IN
    /\ \E t \in (N \div 4)..((N \div 4) + 1), k \in ((100 * N) \div 1024)..(((100 * N) \div 1024) + 1),
          m \in 0..1 :
         /\ 4 * t >= N /\ 4 * (t - 1) < N
         /\ 2 * Abs(1024 * k - 100 * N) <= 1024
         /\ 2 * Abs(1048576 * m - 100 * N) <= 1048576
         /\ Contains(eOut, <<"Size: ">> \o toFixed2(k) \o <<" KB (">> \o toFixed2(m) \o <<" MB)">>)
         /\ Contains(eOut, <<"Estimated tokens: ~">> \o Grouped(t) \o <<"\n- ">>)
    /\ N = 5396 =>
         /\ Contains(eOut, <<"Size: ", "5", ".", "2", "7", " KB (", "0", ".", "0", "1", " MB)">>)
         /\ Contains(eOut, <<"Estimated tokens: ~", "1", ",", "3", "4", "9", "\n- ">>)
    /\ N = 0 => Contains(eOut, <<"Estimated tokens: ~", "0", "\n- ">>)
    /\ N \in 1..4 => Contains(eOut, <<"Estimated tokens: ~", "1", "\n- ">>)

\* C9 witness: the estimate of the 5396-byte artifact has been computed.
C9_Witness == eOut # <<>> /\ eIn.size = 5396 /\ Contains(eOut, <<"1", ",", "3", "4", "9">>)

(***************************************************************************)
(* Claims about the handler's outcome (checked under Spec).                *)
(***************************************************************************)
\* The call as it arrived.
CallOf(r) == loc[r].call[1]

\* The arguments are of the declared types and the style, if any, is one of
\* xml, markdown, plain.
WellTyped(raw) ==
  /\ ~raw.wrongType
  /\ raw.style \in {<<>>, <<<<"xml">>>>, <<<<"markdown">>>>, <<<<"plain">>>>}

\* The call names one of the two operations and its arguments pass validation.
ValidCall(r) ==
  /\ Has(loc[r].call)
  /\ CallOf(r).name \in {"repomix", "repomix-estimate"}
  /\ WellTyped(CallOf(r).arguments)

\* The call names another operation, or its arguments do not pass validation.
InvalidCall(r) ==
  /\ Has(loc[r].call)
  /\ \/ CallOf(r).name \notin {"repomix", "repomix-estimate"}
     \/ ~WellTyped(CallOf(r).arguments)

\* C11: a call that names one of the two operations and passes validation
\* yields exactly one result, a returned one-text-block object, never a throw;
\* a failure of the tool, stat or read appears in an error-flagged result, and
\* a failed deletion changes neither a success (the held summary or contents
\* are returned as they are) nor the primary error.
C11_OneStructuredResult ==
  \A r \in DOMAIN pc :
    ValidCall(r) =>
      /\ (result[r] # NoResult) <=> Completed(r)
      /\ Completed(r) =>
           /\ result[r].kind = "return"
           /\ result[r].isError \in BOOLEAN
           /\ loc[r].held # <<>> => result[r] = [kind |-> "return", text |-> loc[r].held,
                                                 isError |-> FALSE]
           /\ loc[r].error # <<>> =>
                /\ result[r].isError
                /\ startsWith(result[r].text, <<"Error executing repomix: ">> \o loc[r].error)
           /\ (Has(loc[r].env) /\ loc[r].env[1].exit # "ok") =>
                /\ result[r].isError
                /\ Contains(result[r].text, ExecErrorMessage(loc[r].command, loc[r].env[1]))

\* C11 witness: a retrieval whose deletion failed has returned the contents.
C11_Witness ==
  \E r \in DOMAIN pc :
    /\ ValidCall(r) /\ Completed(r) /\ loc[r].name = "repomix"
    /\ Occurs(r, "rm_failed")
    /\ loc[r].held # <<>> /\ result[r].text = loc[r].held /\ ~result[r].isError

\* C12: a call that names another operation, or whose arguments do not conform
\* to the schema, ends in a thrown error, not a returned result, and that call
\* invokes no guard, starts no subprocess and touches no temporary file.
C12_InvalidCallThrows ==
  \A r \in DOMAIN pc :
    InvalidCall(r) =>
      /\ Completed(r)
      /\ result[r].kind = "throw"
      /\ CallOf(r).name \notin {"repomix", "repomix-estimate"}
           => result[r].text = <<"Unknown tool: ", CallOf(r).name>>
      /\ log[r] = <<>>
      /\ loc[r].tempId = "" /\ loc[r].command = <<>>
      /\ \A t \in TempIds : disk[t] = NoArtifact

\* C12 witness: a call of a known tool with a style outside the enumeration
\* has been rejected.
C12_Witness ==
  \E r \in DOMAIN pc :
    /\ InvalidCall(r) /\ Completed(r)
    /\ CallOf(r).name = "repomix-estimate"
    /\ ~CallOf(r).arguments.wrongType
    /\ result[r].kind = "throw"

\* The tool of a completed estimate request failed: it exited non-zero or
\* could not be launched.
EstimateExecFailed(r) ==
  /\ Completed(r) /\ loc[r].name = "repomix-estimate"
  /\ Has(loc[r].env) /\ loc[r].env[1].exit # "ok"

EstimationFailurePrefix == <<"Failed to estimate size: ">>

\* C13 as claimed (Spec): an estimate whose tool run failed ends in an error
\* result that carries the estimation-failure message and the tool's captured
\* standard error.
C13_ExecFailureWrappedAsEstimation ==
  \A r \in DOMAIN pc :
    EstimateExecFailed(r) =>
      /\ result[r].isError
      /\ Contains(result[r].text, EstimationFailurePrefix)
      /\ loc[r].env[1].stderr # <<>> =>
           Contains(result[r].text, <<"Repomix stderr: ">> \o loc[r].env[1].stderr)

\* C13 (Spec): an estimate whose tool run failed ends in an error result with
\* the plain execution-failure message, the same text a retrieval produces for
\* that failure, and without the estimation-failure message; the
\* estimation-failure message appears only when the tool run succeeded and
\* the stat of its output file failed.
C13_ExecFailureIsPlainInEstimate ==
  \A r \in DOMAIN pc :
    /\ EstimateExecFailed(r) =>
         /\ result[r] = Return(<<"Error executing repomix: ">>
                                 \o ExecErrorMessage(loc[r].command, loc[r].env[1]), TRUE)
         /\ ~Contains(result[r].text, EstimationFailurePrefix)
         /\ ~Occurs(r, "stat")
    /\ (Completed(r) /\ result[r].kind = "return"
           /\ Contains(result[r].text, EstimationFailurePrefix)) =>
         /\ loc[r].name = "repomix-estimate"
         /\ result[r].isError
         /\ Has(loc[r].env) /\ loc[r].env[1].exit = "ok"
         /\ Occurs(r, "stat")

\* C13 witness: an estimate whose tool exited non-zero with output on standard
\* error has returned its error result.
C13_Witness ==
  \E r \in DOMAIN pc :
    /\ EstimateExecFailed(r)
    /\ loc[r].env[1].exit = "fail" /\ loc[r].env[1].stderr # <<>>
    /\ result[r].kind = "return" /\ result[r].isError

\* The number of words of a word list equal to w.
CountWord(words, w) == Cardinality({i \in 1..Len(words) : words[i] = w})

\* The option appears once among the words and the word after it is the value.
PassedAsOneToken(words, option, value) ==
  /\ CountWord(words, <<option>>) = 1
  /\ \E i \in 1..(Len(words) - 1) : words[i] = <<option>> /\ words[i + 1] = value

\* C14 as claimed (SpecCommand): whatever characters a non-empty include or
\* ignore value holds, the shell passes it to the tool as the one word after
\* --include (--ignore), and the words end with the only --output and the
\* call's temporary file path.
C14_PatternIsOneToken ==
  cOut # <<>> =>
    LET sh == cOut[1].shell
        n == Len(sh.words)
    IN (Truthy(cIn.args.include) \/ Truthy(cIn.args.ignore)) =>
         /\ sh.ok
         /\ Truthy(cIn.args.include) => PassedAsOneToken(sh.words, "--include", cIn.args.include[1])
         /\ Truthy(cIn.args.ignore) => PassedAsOneToken(sh.words, "--ignore", cIn.args.ignore[1])
         /\ CountWord(sh.words, <<"--output">>) = 1
         /\ n >= 2 /\ sh.words[n - 1] = <<"--output">>
         /\ sh.words[n] = tempFilePath(cIn.tempId)

\* The request's tool run is over and the request has not yet reached a
\* deletion of its own.
HoldsArtifact(r) ==
  /\ Has(loc[r].env)
  /\ \A i \in 1..Len(log[r]) : log[r][i] \notin RmEvents

====
